---- MODULE Spec2Model ----
(***************************************************************************)
(* Model of the adaptive chunking code of src/src/chunk_adaptive.c:         *)
(*   - the effective memory cache estimate and its test override,          *)
(*   - the min/max lookup of a chunk's column (index scan, heap scan),      *)
(*   - calculate_chunk_interval, the chunk interval estimator,              *)
(*   - chunk_adaptive_set and the validation of chunk sizing settings.      *)
(*                                                                         *)
(* The C code computes fill factors in double precision and stores some    *)
(* of the results in int64 variables.  Both are modelled as the code does  *)
(* them: a double is a sign, a 53 bit significand and an exponent, every   *)
(* operation rounds to nearest even, and a cast to int64 truncates.        *)
(* TLC's integers are 32 bits wide, so significands are kept as sequences  *)
(* of limbs.                                                               *)
(***************************************************************************)
EXTENDS Integers, Sequences, FiniteSets, TLC

(***************************************************************************)
(* Natural numbers below 2^112: eight limbs of 14 bits, least significant  *)
(* first.  No operator recurses: TLC's evaluation stays shallow.           *)
(***************************************************************************)
LimbBase == 2^14

Limbs == 1..8

MaxOf(a, b) == IF a >= b THEN a ELSE b

MinOf(a, b) == IF a <= b THEN a ELSE b

BigZero == [i \in Limbs |-> 0]

BigLimb(a, i) == IF i \in Limbs THEN a[i] ELSE 0

\* n as limbs, for 0 <= n < 2^31
BigFromInt(n) ==
    [i \in Limbs |-> IF i = 1 THEN n % LimbBase
                     ELSE IF i = 2 THEN (n \div LimbBase) % LimbBase
                     ELSE IF i = 3 THEN n \div (LimbBase * LimbBase)
                     ELSE 0]

\* a as an integer, for a < 2^31
BigToInt(a) == a[1] + LimbBase * a[2] + LimbBase * LimbBase * a[3]

\* Whether a < 2^31
BigFitsInt(a) == a[3] < 2^3 /\ \A i \in 4..8 : a[i] = 0

BigCmp(a, b) ==
    IF a = b THEN 0
    ELSE IF \E i \in Limbs : a[i] > b[i] /\ \A k \in (i + 1)..8 : a[k] = b[k] THEN 1
    ELSE -1

\* The carry into limb i of a + b
BigCarry(a, b, i) ==
    IF \E j \in 1..(i - 1) : /\ a[j] + b[j] >= LimbBase
                             /\ \A k \in (j + 1)..(i - 1) : a[k] + b[k] >= LimbBase - 1
    THEN 1 ELSE 0

BigAdd(a, b) == [i \in Limbs |-> (a[i] + b[i] + BigCarry(a, b, i)) % LimbBase]

\* The borrow from limb i of a - b
BigBorrow(a, b, i) ==
    IF \E j \in 1..(i - 1) : /\ a[j] < b[j]
                             /\ \A k \in (j + 1)..(i - 1) : a[k] <= b[k]
    THEN 1 ELSE 0

\* a - b, for a >= b
BigSub(a, b) ==
    [i \in Limbs |-> (a[i] - b[i] - BigBorrow(a, b, i) + LimbBase) % LimbBase]

\* a * c, for 0 <= c <= LimbBase
BigMulSmall(a, c) ==
    BigAdd([i \in Limbs |-> (a[i] * c) % LimbBase],
           [i \in Limbs |-> (BigLimb(a, i - 1) * c) \div LimbBase])

\* The sum of the limb products of a * b that fall on limb k; a, b < 2^56
BigMulColumn(a, b, k) ==
    IF k < 1 THEN 0
    ELSE a[1] * BigLimb(b, k) + a[2] * BigLimb(b, k - 1)
         + a[3] * BigLimb(b, k - 2) + a[4] * BigLimb(b, k - 3)

\* a * b, for a, b < 2^56 (limbs 5..8 are zero)
BigMul(a, b) ==
    BigAdd(BigAdd([k \in Limbs |-> BigMulColumn(a, [i \in Limbs |-> IF i <= 4 THEN b[i] ELSE 0], k) % LimbBase],
                  [k \in Limbs |-> (BigMulColumn(a, [i \in Limbs |-> IF i <= 4 THEN b[i] ELSE 0], k - 1) \div LimbBase) % LimbBase]),
           [k \in Limbs |-> BigMulColumn(a, [i \in Limbs |-> IF i <= 4 THEN b[i] ELSE 0], k - 2) \div (LimbBase * LimbBase)])

\* a * 2^k
BigShl(a, k) ==
    LET q == k \div 14
        s == k % 14
    IN  [i \in Limbs |-> (BigLimb(a, i - q) % 2^(14 - s)) * 2^s
                         + BigLimb(a, i - q - 1) \div 2^(14 - s)]

\* a \div 2^k
BigShr(a, k) ==
    LET q == k \div 14
        s == k % 14
    IN  [i \in Limbs |-> BigLimb(a, i + q) \div 2^s
                         + (BigLimb(a, i + q + 1) % 2^s) * 2^(14 - s)]

\* The number of bits of n, for 0 <= n < 2^14
IntBitLen(n) == CHOOSE b \in 0..14 : n < 2^b /\ (b = 0 \/ n >= 2^(b - 1))

BigBitLen(a) ==
    IF a = BigZero THEN 0
    ELSE LET t == CHOOSE i \in Limbs : a[i] # 0 /\ \A k \in (i + 1)..8 : a[k] = 0
         IN  14 * (t - 1) + IntBitLen(a[t])

\* The quotient limb q of rb \div d, for rb < d * LimbBase, from an estimate
\* qhat that is at most two too large
BigDivFix(rb, d, qhat) ==
    IF BigCmp(BigMulSmall(d, qhat), rb) <= 0 THEN qhat
    ELSE IF BigCmp(BigMulSmall(d, qhat - 1), rb) <= 0 THEN qhat - 1
    ELSE qhat - 2

\* <<q, rb - q * d>>
BigDivRem(rb, d, q) == <<q, BigSub(rb, BigMulSmall(d, q))>>

\* The estimate comes from the two top limbs of rb and the top limb of d
BigDivLimb(rb, d) ==
    BigDivRem(rb, d, BigDivFix(rb, d, MinOf((rb[5] * LimbBase + rb[4]) \div d[4], LimbBase - 1)))

\* One step of long division: <<q, r * LimbBase - q * d>> with q the quotient
\* limb of (r * LimbBase) \div d, for r < d < 2^56 and d[4] >= 2^13
BigDivStep(r, d) == BigDivLimb(BigShl(r, 14), d)

\* Long division, limb after limb: q's limbs so far, most significant first,
\* and the remainder in hand
BigDiv1(d, q5, q4, q3, q2, s) ==
    <<[i \in Limbs |-> IF i = 1 THEN s[1] ELSE IF i = 2 THEN q2 ELSE IF i = 3 THEN q3
                       ELSE IF i = 4 THEN q4 ELSE IF i = 5 THEN q5 ELSE 0],
      s[2] # BigZero>>

BigDiv2(d, q5, q4, q3, s) == BigDiv1(d, q5, q4, q3, s[1], BigDivStep(s[2], d))

BigDiv3(d, q5, q4, s) == BigDiv2(d, q5, q4, s[1], BigDivStep(s[2], d))

BigDiv4(d, q5, s) == BigDiv3(d, q5, s[1], BigDivStep(s[2], d))

BigDiv5(r0, d, q5) == BigDiv4(d, q5, BigDivStep(IF q5 = 1 THEN BigSub(r0, d) ELSE r0, d))

BigDivTop(r0, d) == BigDiv5(r0, d, IF BigCmp(r0, d) >= 0 THEN 1 ELSE 0)

\* <<(a * 2^56) \div b, whether b does not divide a * 2^56>>, for a and b of
\* exactly 53 bits
BigDivSticky(a, b) == BigDivTop(BigShl(a, 3), BigShl(b, 3))

(***************************************************************************)
(* double: [cls, neg, man, exp].  A finite value is (-1)^neg * man * 2^exp *)
(* with man = BigZero (zero) or a significand of exactly DBL_MANT_DIG bits.   *)
(* The values the estimator computes stay far from the exponent range's    *)
(* ends, so exponents are unbounded here; a zero has no sign.              *)
(***************************************************************************)
DBL_MANT_DIG == 53

DblZero == [cls |-> "fin", neg |-> FALSE, man |-> BigZero, exp |-> 0]

DblInf(neg) == [cls |-> "inf", neg |-> neg, man |-> BigZero, exp |-> 0]

DblNaN == [cls |-> "nan", neg |-> FALSE, man |-> BigZero, exp |-> 0]

DblIsZero(x) == x.cls = "fin" /\ x.man = BigZero

\* The double nearest to (-1)^neg * (M + s) * 2^E, where 0 < s < 1 iff sticky
\* (sticky only with M wider than DBL_MANT_DIG + 1 bits); ties go to even.
DblRound(neg, M, E, sticky) ==
    IF M = BigZero THEN DblZero
    ELSE LET L == BigBitLen(M) IN
         IF L <= DBL_MANT_DIG
         THEN [cls |-> "fin", neg |-> neg,
               man |-> BigShl(M, DBL_MANT_DIG - L), exp |-> E - (DBL_MANT_DIG - L)]
         ELSE LET d    == L - DBL_MANT_DIG
                  kept == BigShr(M, d)
                  rem  == BigSub(M, BigShl(kept, d))
                  c    == BigCmp(rem, BigShl(BigFromInt(1), d - 1))
                  up   == c > 0 \/ (c = 0 /\ (sticky \/ kept[1] % 2 = 1))
                  m2   == IF up THEN BigAdd(kept, BigFromInt(1)) ELSE kept
              IN  IF BigBitLen(m2) > DBL_MANT_DIG
                  THEN [cls |-> "fin", neg |-> neg, man |-> BigShr(m2, 1), exp |-> E + d + 1]
                  ELSE [cls |-> "fin", neg |-> neg, man |-> m2, exp |-> E + d]

\* (double) n, for an int64 n
DblFromInt64(n) == DblRound(n < 0, BigFromInt(IF n < 0 THEN -n ELSE n), 0, FALSE)

DblNeg(x) == IF x.cls = "nan" \/ DblIsZero(x) THEN x ELSE [x EXCEPT !.neg = ~x.neg]

\* fabs(x)
DblAbs(x) == [x EXCEPT !.neg = FALSE]

\* -1, 0, 1 for |x| <, =, > |y|; x and y finite
DblCmpMag(x, y) ==
    IF x.man = BigZero THEN (IF y.man = BigZero THEN 0 ELSE -1)
    ELSE IF y.man = BigZero THEN 1
    ELSE IF x.exp < y.exp THEN -1
    ELSE IF x.exp > y.exp THEN 1
    ELSE BigCmp(x.man, y.man)

\* -1, 0, 1 for x <, =, > y; neither is a NaN
DblCmp(x, y) ==
    IF x.cls = "inf"
    THEN (IF y.cls = "inf" /\ y.neg = x.neg THEN 0 ELSE IF x.neg THEN -1 ELSE 1)
    ELSE IF y.cls = "inf" THEN (IF y.neg THEN 1 ELSE -1)
    ELSE IF x.neg /\ ~y.neg THEN -1
    ELSE IF ~x.neg /\ y.neg THEN 1
    ELSE IF x.neg THEN DblCmpMag(y, x)
    ELSE DblCmpMag(x, y)

\* x > y and x <= y of C: both are false when an operand is a NaN
DblGt(x, y) == x.cls # "nan" /\ y.cls # "nan" /\ DblCmp(x, y) > 0

DblLe(x, y) == x.cls # "nan" /\ y.cls # "nan" /\ DblCmp(x, y) <= 0

\* x + y.  An operand below a quarter of the other's last place cannot change
\* the rounded sum.
DblAdd(x, y) ==
    IF x.cls = "nan" \/ y.cls = "nan" THEN DblNaN
    ELSE IF x.cls = "inf"
    THEN (IF y.cls = "inf" /\ y.neg # x.neg THEN DblNaN ELSE x)
    ELSE IF y.cls = "inf" THEN y
    ELSE IF x.man = BigZero THEN y
    ELSE IF y.man = BigZero THEN x
    ELSE IF x.exp - y.exp >= DBL_MANT_DIG + 2 THEN x
    ELSE IF y.exp - x.exp >= DBL_MANT_DIG + 2 THEN y
    ELSE LET e  == MinOf(x.exp, y.exp)
             mx == BigShl(x.man, x.exp - e)
             my == BigShl(y.man, y.exp - e)
         IN  IF x.neg = y.neg THEN DblRound(x.neg, BigAdd(mx, my), e, FALSE)
             ELSE IF BigCmp(mx, my) >= 0 THEN DblRound(x.neg, BigSub(mx, my), e, FALSE)
             ELSE DblRound(y.neg, BigSub(my, mx), e, FALSE)

\* x - y
DblSub(x, y) == DblAdd(x, DblNeg(y))

\* x * y
DblMul(x, y) ==
    IF x.cls = "nan" \/ y.cls = "nan" THEN DblNaN
    ELSE IF x.cls = "inf" \/ y.cls = "inf"
    THEN (IF DblIsZero(x) \/ DblIsZero(y) THEN DblNaN ELSE DblInf(x.neg # y.neg))
    ELSE DblRound(x.neg # y.neg, BigMul(x.man, y.man), x.exp + y.exp, FALSE)

\* x / y
DblDiv(x, y) ==
    IF x.cls = "nan" \/ y.cls = "nan" THEN DblNaN
    ELSE IF x.cls = "inf"
    THEN (IF y.cls = "inf" THEN DblNaN ELSE DblInf(x.neg # y.neg))
    ELSE IF y.cls = "inf" THEN DblZero
    ELSE IF y.man = BigZero
    THEN (IF x.man = BigZero THEN DblNaN ELSE DblInf(x.neg))
    ELSE IF x.man = BigZero THEN DblZero
    ELSE LET qs == BigDivSticky(x.man, y.man)
         IN  DblRound(x.neg # y.neg, qs[1], x.exp - y.exp - (DBL_MANT_DIG + 3), qs[2])

\* Whether (int64) x is defined by C: x is finite and its integer part fits.
DblCastDefined(x) ==
    x.cls = "fin" /\ (x.man = BigZero \/ x.exp + DBL_MANT_DIG <= 63)

\* (int64) x, truncating toward zero, where the cast is defined
DblToInt64(x) ==
    IF x.man = BigZero THEN 0
    ELSE LET mag == IF x.exp >= 0 THEN BigToInt(BigShl(x.man, x.exp))
                    ELSE BigToInt(BigShr(x.man, -x.exp))
         IN  IF x.neg THEN -mag ELSE mag

(***************************************************************************)
(* A chunk's relation.  rows is the heap in scan order; a row gives, for   *)
(* each column, a datum [isnull, value] (heap_getattr returns  *)
(* the datum 0 for a null).  An index is [indkey, desc, entries]: the heap *)
(* column of its first key, its direction, and the row numbers in index    *)
(* order.  A btree orders nulls as larger than every value; a descending   *)
(* index is the reverse of an ascending one.                               *)
(***************************************************************************)
MaxRows == 2

\* The comparison function of the column type (tce->cmp_proc_finfo)
CmpProc(a, b) == IF a < b THEN -1 ELSE IF a > b THEN 1 ELSE 0

\* Whether key datum a sorts before, or equal to, key datum b in an ascending
\* btree
KeyLe(a, b) == b.isnull \/ (~a.isnull /\ a.value <= b.value)

\* Whether entries is an order in which a btree on column indkey can hold rows
IsIndexOrder(rows, indkey, desc, entries) ==
    /\ Len(entries) = Len(rows)
    /\ \A r \in 1..Len(rows) : \E i \in 1..Len(entries) : entries[i] = r
    /\ \A i \in 1..(Len(entries) - 1) :
          IF desc THEN KeyLe(rows[entries[i + 1]][indkey], rows[entries[i]][indkey])
          ELSE KeyLe(rows[entries[i]][indkey], rows[entries[i + 1]][indkey])

\* idxrel->rd_att->attrs[0]->attnum: an index relation's own tuple descriptor
\* numbers the index's columns 1, 2, ...; its first attribute has attnum 1
\* whichever heap column (indkey) the index is on.
IndexFirstAttnum(idx) == 1

MINMAX_NO_INDEX == "MINMAX_NO_INDEX"

MINMAX_NO_TUPLES == "MINMAX_NO_TUPLES"

MINMAX_FOUND == "MINMAX_FOUND"

\* The loop body of minmax_heapscan for one tuple; st is [minmax, nulls], both
\* indexed from 1 where C indexes from 0
MinmaxHeapscanTuple(st, d) ==
    IF d.isnull THEN st
    ELSE LET s1 == IF st.nulls[1] \/ CmpProc(d.value, st.minmax[1]) < 0
                   THEN [minmax |-> <<d.value, st.minmax[2]>>, nulls |-> <<FALSE, st.nulls[2]>>]
                   ELSE st
         IN  IF s1.nulls[2] \/ CmpProc(d.value, s1.minmax[2]) > 0
             THEN [minmax |-> <<s1.minmax[1], d.value>>, nulls |-> <<s1.nulls[1], FALSE>>]
             ELSE s1

\* minmax_heapscan's state when it enters its loop: nulls = {true} leaves
\* nulls[1] false, and minmax is whatever the caller's buffer holds
MinmaxHeapscanBegin(buf) == [minmax |-> buf, nulls |-> <<TRUE, FALSE>>]

MinmaxResultOf(nulls) == IF nulls[1] \/ nulls[2] THEN MINMAX_NO_TUPLES ELSE MINMAX_FOUND

RECURSIVE MinmaxHeapscanFrom(_, _, _, _)
MinmaxHeapscanFrom(rows, attnum, i, st) ==
    IF i > Len(rows) THEN st
    ELSE MinmaxHeapscanFrom(rows, attnum, i + 1, MinmaxHeapscanTuple(st, rows[i][attnum]))

\* minmax_heapscan: [res, minmax]
minmax_heapscan(rows, attnum, buf) ==
    LET st == MinmaxHeapscanFrom(rows, attnum, 1, MinmaxHeapscanBegin(buf))
    IN  [res |-> MinmaxResultOf(st.nulls), minmax |-> st.minmax]

\* minmax_indexscan: [res, minmax].  The backward scan's tuple is stored
\* first, the forward scan's tuple second; isnull is not looked at.
minmax_indexscan(rows, idx, attnum, buf) ==
    IF idx.entries = <<>> THEN [res |-> MINMAX_NO_TUPLES, minmax |-> buf]
    ELSE [res |-> MINMAX_FOUND,
          minmax |-> <<rows[idx.entries[Len(idx.entries)]][attnum].value,
                       rows[idx.entries[1]][attnum].value>>]

\* One iteration of relation_minmax_indexscan's loop over the index list; r is
\* [res, minmax]
RelationMinmaxIndexscanIter(rows, idx, attnum, r) ==
    IF IndexFirstAttnum(idx) = attnum THEN minmax_indexscan(rows, idx, attnum, r.minmax) ELSE r

RECURSIVE RelationMinmaxIndexscanFrom(_, _, _, _, _)
RelationMinmaxIndexscanFrom(rows, indexlist, attnum, i, r) ==
    IF i > Len(indexlist) \/ r.res = MINMAX_FOUND THEN r
    ELSE RelationMinmaxIndexscanFrom(rows, indexlist, attnum, i + 1,
             RelationMinmaxIndexscanIter(rows, indexlist[i], attnum, r))

relation_minmax_indexscan(rel, attnum, buf) ==
    RelationMinmaxIndexscanFrom(rel.rows, rel.indexlist, attnum, 1,
                                [res |-> MINMAX_NO_INDEX, minmax |-> buf])

\* chunk_get_minmax: [found, minmax, warned]
chunk_get_minmax(rel, attnum, buf) ==
    LET r == relation_minmax_indexscan(rel, attnum, buf)
        h == IF r.res = MINMAX_NO_INDEX THEN minmax_heapscan(rel.rows, attnum, r.minmax) ELSE r
    IN  [found |-> h.res = MINMAX_FOUND, minmax |-> h.minmax, warned |-> r.res = MINMAX_NO_INDEX]

(***************************************************************************)
(* chunk_get_minmax, step by step, on one chunk relation.                  *)
(***************************************************************************)
VARIABLES
    pc,          \* where the running function is
    rel,         \* the chunk's relation: [rows, indexlist]
    attnum,      \* the heap column whose minimum and maximum are wanted
    minmax,      \* the caller's Datum minmax[2]; <<minmax[0], minmax[1]>>
    nulls,       \* minmax_heapscan's bool nulls[2]
    res,         \* the MinMaxResult in hand
    lc,          \* relation_minmax_indexscan's position in the index list
    scan,        \* the heap scan's position: the next row
    warned,      \* whether the missing-index warning was reported
    found,       \* the running function's return value
    caller,      \* the function that runs relation_minmax_indexscan:
                 \* chunk_get_minmax or table_has_minmax_index
    held         \* the relations the function has open, each with its lock
                 \* mode, in the order they were opened

minmaxVars == <<rel, attnum, minmax, nulls, res, lc, scan, warned, found, caller, held>>

(***************************************************************************)
(* calculate_chunk_interval's state.                                       *)
(***************************************************************************)
VARIABLES
    current_interval,          \* dim->fd.interval_length
    chunk_target_size_bytes,   \* the third argument
    chunks,                    \* chunk_get_window's list
    cell,                      \* the foreach loop's position in chunks
    located,                   \* what chunk_get_minmax gave for each chunk so far
    chunk_interval,
    undersized_intervals,
    num_intervals,
    num_undersized_intervals,
    undersized_fillfactor,
    result                     \* the returned interval

intervalVars == <<current_interval, chunk_target_size_bytes, chunks, cell, located,
                  chunk_interval, undersized_intervals, num_intervals,
                  num_undersized_intervals, undersized_fillfactor, result>>

(***************************************************************************)
(* The state of the memory estimate and of chunk_adaptive_set.             *)
(***************************************************************************)
VARIABLES
    fixed_effective_memory_cache_size,   \* the static of that name
    overridden,      \* history: whether set_effective_memory_cache_size has set a
                     \* value, and the value it set last
    config,          \* what GetConfigOption gives for shared_buffers and
                     \* effective_cache_size, and system_memory_bytes()
    hypertables,     \* for each hypertable, its chunk_sizing_func and
                     \* fd.chunk_target_size
    memory_amount,   \* set_effective_memory_cache_size's argument
    info,            \* chunk_adaptive_set's ChunkSizingInfo
    error,           \* the message of the ERROR that ended the call, "" if none
    retval           \* the value the call returned

policyVars == <<fixed_effective_memory_cache_size, overridden, config, hypertables,
                memory_amount, info, error, retval>>

vars == <<pc, minmaxVars, intervalVars, policyVars>>

\* A C string or a text argument: NULL, or its characters
NullText == [isnull |-> TRUE, str |-> <<>>]

Text(str) == [isnull |-> FALSE, str |-> str]

InvalidOid == 0

INT8OID == 20

INT4OID == 23

\* The relations of the database: whether the hypertable cache has an entry for
\* the relation, the column name of its first open dimension (NULL if it has
\* none), and the relation's columns
Relations ==
    [r \in 1..4 |->
        [hypertable |-> r # 2,
         dimension  |-> IF r \in {1, 4} THEN Text(<<"t">>) ELSE NullText,
         columns    |-> IF r = 4 THEN << [attname |-> <<"v">>, atttypid |-> INT4OID] >>
                        ELSE << [attname |-> <<"t">>, atttypid |-> INT8OID],
                                [attname |-> <<"v">>, atttypid |-> INT4OID] >>]]

TableOids == {InvalidOid} \cup DOMAIN Relations

HypertableOids == {r \in DOMAIN Relations : Relations[r].hypertable}

\* pg_proc: the functions 10 and 14 have the signature of a chunk sizing
\* function, 11 to 13 have not, 15 is the Oid of no function
PgProc ==
    [f \in 10..14 |->
        [pronargs    |-> IF f = 11 THEN 2 ELSE 3,
         proargtypes |-> IF f = 11 THEN <<INT4OID, INT8OID>>
                         ELSE IF f = 12 THEN <<INT8OID, INT8OID, INT8OID>>
                         ELSE <<INT4OID, INT8OID, INT8OID>>,
         prorettype  |-> IF f = 13 THEN INT4OID ELSE INT8OID]]

FuncOids == {InvalidOid} \cup 10..15

\* ChunkSizingInfo before chunk_adaptive_set has filled it
NoInfo ==
    [table_relid |-> InvalidOid, target_size |-> NullText, func |-> InvalidOid,
     colname |-> NullText, target_size_bytes |-> 0]

\* A hypertable as create_hypertable leaves it: the default sizing function,
\* adaptive chunking disabled
NewHypertables == [r \in HypertableOids |-> [chunk_sizing_func |-> 10, chunk_target_size |-> 0]]

\* Under SpecMinMax and SpecInterval no call of the policy functions is running
PolicyIdle ==
    /\ fixed_effective_memory_cache_size = -1
    /\ overridden = [set |-> FALSE, bytes |-> 0]
    /\ config = [shared_buffers |-> Text(<<"1", "6">>),
                 effective_cache_size |-> Text(<<"1">>),
                 system_memory |-> 4096]
    /\ hypertables = NewHypertables
    /\ memory_amount = NullText
    /\ info = NoInfo
    /\ error = ""
    /\ retval = <<>>

\* The state of calculate_chunk_interval's variables at its entry
IntervalEntry ==
    /\ cell = 1
    /\ located = <<>>
    /\ chunk_interval = 0
    /\ undersized_intervals = 0
    /\ num_intervals = 0
    /\ num_undersized_intervals = 0
    /\ undersized_fillfactor = DblZero
    /\ result = 0

\* Under SpecMinMax calculate_chunk_interval is not running
IntervalIdle ==
    /\ current_interval = 1
    /\ chunk_target_size_bytes = 1
    /\ chunks = <<>>
    /\ IntervalEntry

Attrs == 1..2

Values == 1..2

\* What an uninitialized Datum may hold
Garbage == {0, 1048576}

MaxIndexes == 2

RowDatums == [isnull : {FALSE}, value : Values] \cup {[isnull |-> TRUE, value |-> 0]}

SeqsUpTo(S, n) == UNION {[1..k -> S] : k \in 0..n}

Indexes(rows) ==
    {[indkey |-> k, desc |-> d, entries |-> e] :
        k \in Attrs, d \in BOOLEAN, e \in [1..Len(rows) -> 1..Len(rows)]}

AccessShareLock == "AccessShareLock"

\* The chunk's heap relation and the i-th index of its index list
HeapRelation == [kind |-> "heap", index |-> 0]

IndexRelation(i) == [kind |-> "index", index |-> i]

\* heap_open / index_open: the relation is open with the lock mode
relation_open(h, r, lockmode) == Append(h, [relation |-> r, lockmode |-> lockmode])

\* h without its i-th entry
RemoveAt(h, i) == [j \in 1..(Len(h) - 1) |-> IF j < i THEN h[j] ELSE h[j + 1]]

\* A close that leaves the relation open
relation_left_open(h, r, lockmode) == h

\* heap_close / index_close: one opening of the relation with that lock mode
\* is given up
relation_close(h, r, lockmode) ==
    IF \E i \in DOMAIN h : h[i] = [relation |-> r, lockmode |-> lockmode]
    THEN RemoveAt(h, CHOOSE i \in DOMAIN h : h[i] = [relation |-> r, lockmode |-> lockmode])
    ELSE h

InitMinMax ==
    /\ pc = "heap_open"
    /\ \E rows \in SeqsUpTo([Attrs -> RowDatums], MaxRows) :
       \E il \in SeqsUpTo({i \in Indexes(rows) : IsIndexOrder(rows, i.indkey, i.desc, i.entries)},
                          MaxIndexes) :
          rel = [rows |-> rows, indexlist |-> il]
    /\ attnum \in Attrs
    /\ minmax \in Garbage \X Garbage
    /\ nulls = <<TRUE, TRUE>>
    /\ res = MINMAX_NO_INDEX
    /\ lc = 1
    /\ scan = 1
    /\ warned = FALSE
    /\ found = FALSE
    /\ caller \in {"chunk_get_minmax", "table_has_minmax_index"}
    /\ held = <<>>
    /\ IntervalIdle
    /\ PolicyIdle

\* chunk_get_minmax (line 326) or table_has_minmax_index (line 310) opens the
\* relation and calls relation_minmax_indexscan
HeapOpen ==
    /\ pc = "heap_open"
    /\ held' = relation_open(held, HeapRelation, AccessShareLock)
    /\ pc' = "index_list"
    /\ res' = MINMAX_NO_INDEX
    /\ lc' = 1
    /\ UNCHANGED <<rel, attnum, minmax, nulls, scan, warned, found, caller, intervalVars,
                   policyVars>>

\* relation_minmax_indexscan's loop opens the next index (line 292)
IndexOpen ==
    /\ pc = "index_list"
    /\ lc <= Len(rel.indexlist)
    /\ res # MINMAX_FOUND
    /\ held' = relation_open(held, IndexRelation(lc), AccessShareLock)
    /\ pc' = "index_scan"
    /\ UNCHANGED <<rel, attnum, minmax, nulls, res, lc, scan, warned, found, caller,
                   intervalVars, policyVars>>

\* The rest of the iteration: the scan of a matching index, and index_close
\* (lines 294-297)
IndexClose ==
    /\ pc = "index_scan"
    /\ LET r == RelationMinmaxIndexscanIter(rel.rows, rel.indexlist[lc], attnum,
                                            [res |-> res, minmax |-> minmax])
       IN  res' = r.res /\ minmax' = r.minmax
    /\ held' = relation_close(held, IndexRelation(lc), AccessShareLock)
    /\ lc' = lc + 1
    /\ pc' = "index_list"
    /\ UNCHANGED <<rel, attnum, nulls, scan, warned, found, caller, intervalVars, policyVars>>

\* relation_minmax_indexscan returns and no heap scan follows: it has an index
\* result, or table_has_minmax_index called it
IndexResult ==
    /\ pc = "index_list"
    /\ lc > Len(rel.indexlist) \/ res = MINMAX_FOUND
    /\ res # MINMAX_NO_INDEX \/ caller = "table_has_minmax_index"
    /\ pc' = "heap_close"
    /\ UNCHANGED <<minmaxVars, intervalVars, policyVars>>

\* relation_minmax_indexscan returns MINMAX_NO_INDEX to chunk_get_minmax: the
\* warning, and minmax_heapscan begins
HeapBeginscan ==
    /\ pc = "index_list"
    /\ lc > Len(rel.indexlist)
    /\ res = MINMAX_NO_INDEX
    /\ caller = "chunk_get_minmax"
    /\ warned' = TRUE
    /\ nulls' = MinmaxHeapscanBegin(minmax).nulls
    /\ scan' = 1
    /\ pc' = "heap_scan"
    /\ UNCHANGED <<rel, attnum, minmax, res, lc, found, caller, held, intervalVars,
                   policyVars>>

\* One iteration of minmax_heapscan's loop
HeapGetnext ==
    /\ pc = "heap_scan"
    /\ scan <= Len(rel.rows)
    /\ LET st == MinmaxHeapscanTuple([minmax |-> minmax, nulls |-> nulls],
                                     rel.rows[scan][attnum])
       IN  minmax' = st.minmax /\ nulls' = st.nulls
    /\ scan' = scan + 1
    /\ UNCHANGED <<pc, rel, attnum, res, lc, warned, found, caller, held, intervalVars,
                   policyVars>>

\* minmax_heapscan returns
HeapEndscan ==
    /\ pc = "heap_scan"
    /\ scan > Len(rel.rows)
    /\ res' = MinmaxResultOf(nulls)
    /\ pc' = "heap_close"
    /\ UNCHANGED <<rel, attnum, minmax, nulls, lc, scan, warned, found, caller, held,
                   intervalVars, policyVars>>

\* chunk_get_minmax (lines 339-341) or table_has_minmax_index (lines 313-315)
\* closes the relation and returns
HeapClose ==
    /\ pc = "heap_close"
    /\ held' = relation_close(held, HeapRelation, AccessShareLock)
    /\ found' = IF caller = "chunk_get_minmax" THEN res = MINMAX_FOUND
                ELSE res # MINMAX_NO_INDEX
    /\ pc' = IF caller = "chunk_get_minmax" THEN "minmax_done" ELSE "has_index_done"
    /\ UNCHANGED <<rel, attnum, minmax, nulls, res, lc, scan, warned, caller, intervalVars,
                   policyVars>>

NextMinMax ==
    \/ HeapOpen
    \/ IndexOpen
    \/ IndexClose
    \/ IndexResult
    \/ HeapBeginscan
    \/ HeapGetnext
    \/ HeapEndscan
    \/ HeapClose

SpecMinMax == InitMinMax /\ [][NextMinMax]_vars

(***************************************************************************)
(* calculate_chunk_interval.                                               *)
(***************************************************************************)
DEFAULT_CHUNK_WINDOW == 3

NUM_UNDERSIZED_INTERVALS == 1

\* The block size of the PostgreSQL build
BLCKSZ == 8192

DblOne == DblFromInt64(1)

INTERVAL_FILLFACTOR_THRESH == DblDiv(DblFromInt64(5), DblFromInt64(10))

SIZE_FILLFACTOR_THRESH == DblDiv(DblFromInt64(15), DblFromInt64(100))

INTERVAL_MIN_CHANGE_THRESH == DblDiv(DblFromInt64(15), DblFromInt64(100))

UNDERSIZED_FILLFACTOR_THRESH ==
    DblMul(SIZE_FILLFACTOR_THRESH, DblDiv(DblFromInt64(11), DblFromInt64(10)))

\* What a cast to int64 that C leaves undefined may give
IndeterminateInt64 == {-7, 0, 7}

\* The values (int64) x can take
Int64Cast(x) == IF DblCastDefined(x) THEN {DblToInt64(x)} ELSE IndeterminateInt64

\* a / b of C for int64, b > 0: the quotient is truncated toward zero
Int64Div(a, b) == IF a >= 0 THEN a \div b ELSE -((-a) \div b)

\* time_value_to_internal for an integer column: the value itself
time_value_to_internal(d) == d

\* interval_fillfactor = ((double) max - min) / slice_interval
IntervalFillfactor(min, max, slice_interval) ==
    DblDiv(DblSub(DblFromInt64(max), DblFromInt64(min)), DblFromInt64(slice_interval))

\* size_fillfactor = ((double) extrapolated_chunk_size) / chunk_target_size_bytes
SizeFillfactor(extrapolated_chunk_size, target) ==
    DblDiv(DblFromInt64(extrapolated_chunk_size), DblFromInt64(target))

\* A loop body that passes over the chunks below SIZE_FILLFACTOR_THRESH
\* instead of counting them as undersized
AccumulateSampleNoUndersized(acc, slice_interval, interval_fillfactor, size_fillfactor) ==
    IF DblGt(interval_fillfactor, INTERVAL_FILLFACTOR_THRESH)
       /\ DblGt(size_fillfactor, SIZE_FILLFACTOR_THRESH)
    THEN {[acc EXCEPT !.chunk_interval = v, !.num_intervals = @ + 1] :
            v \in Int64Cast(DblAdd(DblFromInt64(acc.chunk_interval),
                                   DblDiv(DblFromInt64(slice_interval), size_fillfactor)))}
    ELSE {acc}

\* A loop body that adds the slice's interval as it is, not divided by
\* size_fillfactor
AccumulateSampleUnscaled(acc, slice_interval, interval_fillfactor, size_fillfactor) ==
    IF DblGt(interval_fillfactor, INTERVAL_FILLFACTOR_THRESH)
       /\ DblGt(size_fillfactor, SIZE_FILLFACTOR_THRESH)
    THEN {[acc EXCEPT !.chunk_interval = @ + slice_interval, !.num_intervals = @ + 1]}
    ELSE IF DblGt(interval_fillfactor, INTERVAL_FILLFACTOR_THRESH)
    THEN {[acc EXCEPT !.undersized_intervals = @ + slice_interval,
                      !.undersized_fillfactor = DblAdd(@, size_fillfactor),
                      !.num_undersized_intervals = @ + 1]}
    ELSE {acc}

\* The accumulators after the loop body's two branches, for one value of
\* extrapolated_chunk_size; acc is [chunk_interval, undersized_intervals,
\* num_intervals, num_undersized_intervals, undersized_fillfactor]
AccumulateSample(acc, slice_interval, interval_fillfactor, size_fillfactor) ==
    IF DblGt(interval_fillfactor, INTERVAL_FILLFACTOR_THRESH)
       /\ DblGt(size_fillfactor, SIZE_FILLFACTOR_THRESH)
    THEN {[acc EXCEPT !.chunk_interval = v, !.num_intervals = @ + 1] :
            v \in Int64Cast(DblAdd(DblFromInt64(acc.chunk_interval),
                                   DblDiv(DblFromInt64(slice_interval), size_fillfactor)))}
    ELSE IF DblGt(interval_fillfactor, INTERVAL_FILLFACTOR_THRESH)
    THEN {[acc EXCEPT !.undersized_intervals = @ + slice_interval,
                      !.undersized_fillfactor = DblAdd(@, size_fillfactor),
                      !.num_undersized_intervals = @ + 1]}
    ELSE {acc}

\* The accumulators the loop body can leave for a chunk whose minimum and
\* maximum were found
AccumulateChunk(acc, slice_interval, chunk_size, min, max, target) ==
    LET interval_fillfactor == IntervalFillfactor(min, max, slice_interval)
    IN  UNION {AccumulateSample(acc, slice_interval, interval_fillfactor,
                                SizeFillfactor(extrapolated_chunk_size, target)) :
                 extrapolated_chunk_size \in
                     Int64Cast(DblDiv(DblFromInt64(chunk_size), interval_fillfactor))}

\* The undersized path's chunk_interval
UndersizedInterval(intervals, fillfactor, num) ==
    LET avg_fillfactor == DblDiv(fillfactor, DblFromInt64(num))
        incr_factor    == DblDiv(UNDERSIZED_FILLFACTOR_THRESH, avg_fillfactor)
        avg_interval   == Int64Div(intervals, num)
    IN  Int64Cast(DblMul(DblFromInt64(avg_interval), incr_factor))

\* interval_diff = fabs(1.0 - ((double) chunk_interval / current_interval))
IntervalDiff(interval, current) ==
    DblAbs(DblSub(DblOne, DblDiv(DblFromInt64(interval), DblFromInt64(current))))

\* A return that takes every computed interval, however close to the current one
ChangedIntervalAlways(interval, current) == interval

\* The interval returned once chunk_interval is computed
ChangedInterval(interval, current) ==
    IF DblLe(IntervalDiff(interval, current), INTERVAL_MIN_CHANGE_THRESH)
    THEN current ELSE interval

\* Under SpecInterval chunk_get_minmax's own steps are not shown: the loop body
\* takes its result whole
MinMaxIdle ==
    /\ rel = [rows |-> <<>>, indexlist |-> <<>>]
    /\ attnum = 1
    /\ minmax = <<0, 0>>
    /\ nulls = <<TRUE, TRUE>>
    /\ res = MINMAX_NO_INDEX
    /\ lc = 1
    /\ scan = 1
    /\ warned = FALSE
    /\ found = FALSE
    /\ caller = "chunk_get_minmax"
    /\ held = <<>>

\* The chunks a window is drawn from: the slice's length, the rows' times
\* counted from the slice's start (ascending), the relation's size in blocks
\* and its index on the time column, if any.  A slice holds the times
\* range_start <= t < range_end.
SmallTemplates ==
    {[interval |-> 17, offsets |-> <<0, 16>>, blocks |-> 1, index |-> "desc"],
     [interval |-> 23, offsets |-> <<0, 22>>, blocks |-> 1, index |-> "desc"],
     [interval |-> 4,  offsets |-> <<0, 3>>,  blocks |-> 8, index |-> "desc"],
     [interval |-> 17, offsets |-> <<0, 16>>, blocks |-> 6, index |-> "desc"],
     [interval |-> 4,  offsets |-> <<>>,      blocks |-> 0, index |-> "desc"],
     [interval |-> 4,  offsets |-> <<1>>,     blocks |-> 1, index |-> "desc"],
     [interval |-> 17, offsets |-> <<0, 16>>, blocks |-> 1, index |-> "asc"],
     [interval |-> 17, offsets |-> <<0, 16>>, blocks |-> 1, index |-> "none"]}

DayTemplates ==
    {[interval |-> 86400, offsets |-> <<0, 86399>>, blocks |-> 14649, index |-> "desc"],
     [interval |-> 86400, offsets |-> <<0, 86399>>, blocks |-> 13184, index |-> "desc"]}

\* Chunks whose slice is as long as the current interval of 20 and whose data
\* fill the slice, of one and of two blocks
FullSliceTemplates ==
    {[interval |-> 20, offsets |-> <<0, 19>>, blocks |-> 1, index |-> "desc"],
     [interval |-> 20, offsets |-> <<0, 19>>, blocks |-> 2, index |-> "desc"]}

\* The relation of a chunk made from template t whose slice starts at start
TemplateRel(t, start) ==
    LET n == Len(t.offsets)
    IN  [rows |-> [i \in 1..n |-> <<[isnull |-> FALSE, value |-> start + t.offsets[i]]>>],
         indexlist |->
            IF t.index = "none" THEN <<>>
            ELSE <<[indkey |-> 1, desc |-> t.index = "desc",
                    entries |-> [i \in 1..n |-> IF t.index = "desc" THEN n + 1 - i ELSE i]]>>]

RECURSIVE WindowStart(_, _)
WindowStart(ts, i) == IF i = 1 THEN 0 ELSE WindowStart(ts, i - 1) + ts[i - 1].interval

\* The window whose chunks, one after the other on the time axis, are made from
\* the templates ts
Window(ts) ==
    [i \in 1..Len(ts) |->
        [range_start |-> WindowStart(ts, i),
         range_end   |-> WindowStart(ts, i) + ts[i].interval,
         chunk_size  |-> ts[i].blocks * BLCKSZ,
         attno       |-> 1,
         rel         |-> TemplateRel(ts[i], WindowStart(ts, i))]]

InitInterval ==
    /\ pc = "foreach"
    /\ \/ /\ current_interval = 20
          /\ chunk_target_size_bytes \in {8704, 409600}
          /\ \E ts \in SeqsUpTo(SmallTemplates, DEFAULT_CHUNK_WINDOW) : chunks = Window(ts)
       \/ /\ current_interval = 86400
          /\ chunk_target_size_bytes = 100000000
          /\ \E ts \in SeqsUpTo(DayTemplates, 1) : chunks = Window(ts)
       \/ /\ current_interval = 20
          /\ chunk_target_size_bytes \in {115200, 1048576}
          /\ \E ts \in SeqsUpTo(FullSliceTemplates, DEFAULT_CHUNK_WINDOW) :
                chunks = Window(ts)
    /\ IntervalEntry
    /\ MinMaxIdle
    /\ PolicyIdle

\* One iteration of the loop over the window (lines 504-580)
ForeachChunk ==
    /\ pc = "foreach"
    /\ cell <= Len(chunks)
    /\ LET chunk == chunks[cell]
           slice_interval == chunk.range_end - chunk.range_start
           acc == [chunk_interval |-> chunk_interval,
                   undersized_intervals |-> undersized_intervals,
                   num_intervals |-> num_intervals,
                   num_undersized_intervals |-> num_undersized_intervals,
                   undersized_fillfactor |-> undersized_fillfactor]
       IN  \E mm \in {chunk_get_minmax(chunk.rel, chunk.attno, buf) : buf \in Garbage \X Garbage} :
              /\ located' = Append(located, [found |-> mm.found,
                                             minmax |-> IF mm.found THEN mm.minmax
                                                        ELSE <<0, 0>>])
              /\ \E a \in IF mm.found
                          THEN AccumulateChunk(acc, slice_interval, chunk.chunk_size,
                                               time_value_to_internal(mm.minmax[1]),
                                               time_value_to_internal(mm.minmax[2]),
                                               chunk_target_size_bytes)
                          ELSE {acc} :
                    /\ chunk_interval' = a.chunk_interval
                    /\ undersized_intervals' = a.undersized_intervals
                    /\ num_intervals' = a.num_intervals
                    /\ num_undersized_intervals' = a.num_undersized_intervals
                    /\ undersized_fillfactor' = a.undersized_fillfactor
    /\ cell' = cell + 1
    /\ UNCHANGED <<pc, current_interval, chunk_target_size_bytes, chunks, result, minmaxVars,
                   policyVars>>

\* No usable interval, more than NUM_UNDERSIZED_INTERVALS undersized ones
\* (lines 594-604)
UndersizedPath ==
    /\ pc = "foreach"
    /\ cell > Len(chunks)
    /\ num_intervals = 0 /\ num_undersized_intervals > NUM_UNDERSIZED_INTERVALS
    /\ chunk_interval' \in UndersizedInterval(undersized_intervals, undersized_fillfactor,
                                              num_undersized_intervals)
    /\ pc' = "interval_diff"
    /\ UNCHANGED <<current_interval, chunk_target_size_bytes, chunks, cell, located,
                   undersized_intervals, num_intervals, num_undersized_intervals,
                   undersized_fillfactor, result, minmaxVars, policyVars>>

\* No usable interval and too few undersized ones: the old interval is
\* returned (lines 606-613)
KeepInterval ==
    /\ pc = "foreach"
    /\ cell > Len(chunks)
    /\ num_intervals = 0 /\ ~(num_undersized_intervals > NUM_UNDERSIZED_INTERVALS)
    /\ result' = current_interval
    /\ pc' = "returned"
    /\ UNCHANGED <<current_interval, chunk_target_size_bytes, chunks, cell, located,
                   chunk_interval, undersized_intervals, num_intervals,
                   num_undersized_intervals, undersized_fillfactor, minmaxVars,
                   policyVars>>

\* chunk_interval /= num_intervals (lines 614-615)
AveragePath ==
    /\ pc = "foreach"
    /\ cell > Len(chunks)
    /\ num_intervals # 0
    /\ chunk_interval' = Int64Div(chunk_interval, num_intervals)
    /\ pc' = "interval_diff"
    /\ UNCHANGED <<current_interval, chunk_target_size_bytes, chunks, cell, located,
                   undersized_intervals, num_intervals, num_undersized_intervals,
                   undersized_fillfactor, result, minmaxVars, policyVars>>

\* The change threshold and the return (lines 622-638)
ChangeThreshold ==
    /\ pc = "interval_diff"
    /\ result' = ChangedInterval(chunk_interval, current_interval)
    /\ chunk_interval' = result'
    /\ pc' = "returned"
    /\ UNCHANGED <<current_interval, chunk_target_size_bytes, chunks, cell, located,
                   undersized_intervals, num_intervals, num_undersized_intervals,
                   undersized_fillfactor, minmaxVars, policyVars>>

NextInterval ==
    \/ ForeachChunk
    \/ UndersizedPath
    \/ KeepInterval
    \/ AveragePath
    \/ ChangeThreshold

SpecInterval == InitInterval /\ [][NextInterval]_vars

(***************************************************************************)
(* The memory estimate and chunk_adaptive_set.                             *)
(***************************************************************************)
DEFAULT_NUM_CHUNKS_TO_FIT_IN_CACHE_MEM == 4

CHUNK_SIZING_FUNC_NARGS == 3

INT_MAX == 2147483647

UpperCase == <<"A", "B", "C", "D", "E", "F", "G", "H", "I", "J", "K", "L", "M",
               "N", "O", "P", "Q", "R", "S", "T", "U", "V", "W", "X", "Y", "Z">>

LowerCase == <<"a", "b", "c", "d", "e", "f", "g", "h", "i", "j", "k", "l", "m",
               "n", "o", "p", "q", "r", "s", "t", "u", "v", "w", "x", "y", "z">>

pg_tolower(ch) ==
    IF \E i \in DOMAIN UpperCase : UpperCase[i] = ch
    THEN LowerCase[CHOOSE i \in DOMAIN UpperCase : UpperCase[i] = ch]
    ELSE ch

\* 0 when s1 and s2 are equal up to the case of their letters, nonzero
\* otherwise (the callers test the result against 0 only)
pg_strcasecmp(s1, s2) ==
    IF Len(s1) = Len(s2) /\ \A i \in DOMAIN s1 : pg_tolower(s1[i]) = pg_tolower(s2[i])
    THEN 0 ELSE 1

DecimalDigits == <<"0", "1", "2", "3", "4", "5", "6", "7", "8", "9">>

IsDigit(ch) == \E d \in DOMAIN DecimalDigits : DecimalDigits[d] = ch

DigitValue(ch) == (CHOOSE d \in DOMAIN DecimalDigits : DecimalDigits[d] = ch) - 1

\* The first position from i on that holds no digit
RECURSIVE DigitsEnd(_, _)
DigitsEnd(str, i) ==
    IF i <= Len(str) /\ IsDigit(str[i]) THEN DigitsEnd(str, i + 1) ELSE i

\* The number written by the digits at the positions i..j of str
RECURSIVE DigitsValue(_, _, _)
DigitsValue(str, i, j) ==
    IF j < i THEN 0 ELSE 10 * DigitsValue(str, i, j - 1) + DigitValue(str[j])

\* parse_int(value, &result, GUC_UNIT_BLOCKS, &hintmsg): an optional sign,
\* decimal digits, and an optional memory unit that is converted to blocks
\* of BLCKSZ bytes; [ok, result]
ParseIntUnit(val, unit) ==
    IF unit = <<>> THEN [ok |-> TRUE, result |-> val]
    ELSE IF unit = <<"k", "B">> THEN [ok |-> TRUE, result |-> Int64Div(val, BLCKSZ \div 1024)]
    ELSE IF unit = <<"M", "B">> THEN [ok |-> TRUE, result |-> val * (1024 \div (BLCKSZ \div 1024))]
    ELSE IF unit = <<"G", "B">>
    THEN [ok |-> TRUE, result |-> val * ((1024 * 1024) \div (BLCKSZ \div 1024))]
    ELSE [ok |-> FALSE, result |-> 0]

ParseIntRange(r) ==
    IF r.ok /\ (r.result > INT_MAX \/ r.result < -INT_MAX - 1)
    THEN [ok |-> FALSE, result |-> 0] ELSE r

ParseIntDigits(str, neg, first, end) ==
    IF end = first THEN [ok |-> FALSE, result |-> 0]
    ELSE ParseIntRange(ParseIntUnit(IF neg THEN -DigitsValue(str, first, end - 1)
                                    ELSE DigitsValue(str, first, end - 1),
                                    SubSeq(str, end, Len(str))))

ParseIntFrom(str, neg, first) == ParseIntDigits(str, neg, first, DigitsEnd(str, first))

parse_int(str) ==
    IF str # <<>> /\ str[1] = "-" THEN ParseIntFrom(str, TRUE, 2)
    ELSE IF str # <<>> /\ str[1] = "+" THEN ParseIntFrom(str, FALSE, 2)
    ELSE ParseIntFrom(str, FALSE, 1)

\* A function's outcome: the message of its ERROR ("" if it returned) and
\* the bytes it returned
Failed(message) == [error |-> message, bytes |-> 0]

Returned(bytes) == [error |-> "", bytes |-> bytes]

\* convert_text_memory_amount_to_bytes once parse_int has given parsed
BlocksToBytes(parsed) ==
    IF ~parsed.ok THEN Failed("invalid data amount")
    ELSE Returned(parsed.result * BLCKSZ)

convert_text_memory_amount_to_bytes(amount) ==
    IF amount.isnull THEN Failed("invalid memory amount")
    ELSE BlocksToBytes(parse_int(amount.str))

system_memory_bytes(cfg) == cfg.system_memory

\* The estimate's last steps: the bound on memory_bytes (lines 159-162)
EstimateBounded(memory_bytes, sysmem_bound_bytes) ==
    Returned(IF memory_bytes > sysmem_bound_bytes THEN sysmem_bound_bytes ELSE memory_bytes)

\* The estimate once effective_cache_size is read (lines 141-153)
EstimateEffective(sysmem_bound_bytes, shared_buffers, val) ==
    IF val.isnull THEN Failed("missing configuration for 'effective_cache_size'")
    ELSE IF ~parse_int(val.str).ok
    THEN Failed("could not parse 'effective_cache_size' setting")
    ELSE EstimateBounded(MaxOf(shared_buffers, parse_int(val.str).result) * BLCKSZ,
                         sysmem_bound_bytes)

\* The estimate once shared_buffers is read (lines 132-139)
EstimateShared(sysmem_bound_bytes, val, cfg) ==
    IF val.isnull THEN Failed("missing configuration for 'shared_buffers'")
    ELSE IF ~parse_int(val.str).ok THEN Failed("could not parse 'shared_buffers' setting")
    ELSE EstimateEffective(sysmem_bound_bytes, parse_int(val.str).result,
                           cfg.effective_cache_size)

\* An estimate that bounds the fixed size, too, by half of the system memory
estimate_effective_memory_cache_size_bounded(fixed, cfg) ==
    IF fixed > 0 THEN Returned(MinOf(fixed, Int64Div(system_memory_bytes(cfg), 2)))
    ELSE EstimateShared(Int64Div(system_memory_bytes(cfg), 2), cfg.shared_buffers, cfg)

estimate_effective_memory_cache_size(fixed, cfg) ==
    IF fixed > 0 THEN Returned(fixed)
    ELSE EstimateShared(Int64Div(system_memory_bytes(cfg), 2), cfg.shared_buffers, cfg)

\* The quarter of an estimate r
InitialTargetOf(r) ==
    IF r.error # "" THEN r
    ELSE Returned(Int64Div(r.bytes, DEFAULT_NUM_CHUNKS_TO_FIT_IN_CACHE_MEM))

calculate_initial_chunk_target_size(fixed, cfg) ==
    InitialTargetOf(estimate_effective_memory_cache_size(fixed, cfg))

\* "Disable if target size is zero or less" (lines 699-701)
DisabledIfNotPositive(r) ==
    IF r.error # "" THEN r
    ELSE IF r.bytes <= 0 THEN Returned(0) ELSE r

\* A target size that is returned as it was computed
chunk_target_size_in_bytes_as_computed(target_size, fixed, cfg) ==
    IF pg_strcasecmp(target_size.str, <<"o", "f", "f">>) = 0
       \/ pg_strcasecmp(target_size.str, <<"d", "i", "s", "a", "b", "l", "e">>) = 0
    THEN Returned(0)
    ELSE IF pg_strcasecmp(target_size.str, <<"e", "s", "t", "i", "m", "a", "t", "e">>) = 0
    THEN calculate_initial_chunk_target_size(fixed, cfg)
    ELSE convert_text_memory_amount_to_bytes(target_size)

chunk_target_size_in_bytes(target_size, fixed, cfg) ==
    IF pg_strcasecmp(target_size.str, <<"o", "f", "f">>) = 0
       \/ pg_strcasecmp(target_size.str, <<"d", "i", "s", "a", "b", "l", "e">>) = 0
    THEN Returned(0)
    ELSE DisabledIfNotPositive(
             IF pg_strcasecmp(target_size.str, <<"e", "s", "t", "i", "m", "a", "t", "e">>) = 0
             THEN calculate_initial_chunk_target_size(fixed, cfg)
             ELSE convert_text_memory_amount_to_bytes(target_size))

\* A validation that asks only that the function exists
chunk_sizing_func_validate_exists(func) ==
    IF func = InvalidOid THEN "invalid chunk sizing function"
    ELSE IF func \notin DOMAIN PgProc THEN "cache lookup failed for function"
    ELSE ""

\* The message of chunk_sizing_func_validate's ERROR, "" if it returns
chunk_sizing_func_validate(func) ==
    IF func = InvalidOid THEN "invalid chunk sizing function"
    ELSE IF func \notin DOMAIN PgProc THEN "cache lookup failed for function"
    ELSE IF PgProc[func].pronargs # CHUNK_SIZING_FUNC_NARGS
            \/ PgProc[func].proargtypes[1] # INT4OID
            \/ PgProc[func].proargtypes[2] # INT8OID
            \/ PgProc[func].proargtypes[3] # INT8OID
            \/ PgProc[func].prorettype # INT8OID
    THEN "invalid function signature"
    ELSE ""

\* get_attnum: the number of the relation's column of that name,
\* InvalidAttrNumber (0) if it has none
get_attnum(relid, colname) ==
    IF \E a \in DOMAIN Relations[relid].columns :
           Relations[relid].columns[a].attname = colname.str
    THEN CHOOSE a \in DOMAIN Relations[relid].columns :
             Relations[relid].columns[a].attname = colname.str
    ELSE 0

get_atttype(relid, att) ==
    IF att \in DOMAIN Relations[relid].columns
    THEN Relations[relid].columns[att].atttypid ELSE InvalidOid

\* info->target_size_bytes = chunk_target_size_in_bytes(info->target_size)
InfoWithTarget(inf, r) ==
    [error |-> r.error,
     info |-> IF r.error = "" THEN [inf EXCEPT !.target_size_bytes = r.bytes] ELSE inf]

\* chunk_adaptive_sizing_info_validate: the message of its ERROR ("" if it
\* returns) and the ChunkSizingInfo it leaves.  Its warnings are not modelled.
chunk_adaptive_sizing_info_validate(inf, fixed, cfg) ==
    IF inf.table_relid = InvalidOid
    THEN [error |-> "table does not exist", info |-> inf]
    ELSE IF inf.colname.isnull
    THEN [error |-> "no open dimension found for adaptive chunking", info |-> inf]
    ELSE IF get_atttype(inf.table_relid, get_attnum(inf.table_relid, inf.colname)) = InvalidOid
    THEN [error |-> "column does not exist", info |-> inf]
    ELSE IF chunk_sizing_func_validate(inf.func) # ""
    THEN [error |-> chunk_sizing_func_validate(inf.func), info |-> inf]
    ELSE IF inf.target_size.isnull
    THEN [error |-> "", info |-> [inf EXCEPT !.target_size_bytes = 0]]
    ELSE InfoWithTarget(inf, chunk_target_size_in_bytes(inf.target_size, fixed, cfg))

\* The settings and the machines the calls are made on.  GetConfigOption's
\* result is tested by the callers for NULL and for text that parse_int
\* refuses.
Configs ==
    {[shared_buffers |-> Text(<<"1", "6", "3", "8", "4">>),
      effective_cache_size |-> Text(<<"6", "5", "5", "3", "6">>),
      system_memory |-> 268435456],
     [shared_buffers |-> Text(<<"2", "0", "0", "0">>),
      effective_cache_size |-> Text(<<"1", "0", "0", "0">>),
      system_memory |-> 1073741824],
     [shared_buffers |-> NullText,
      effective_cache_size |-> Text(<<"1", "0", "0", "0">>),
      system_memory |-> 1073741824],
     [shared_buffers |-> Text(<<"2", "0", "0", "0">>),
      effective_cache_size |-> Text(<<"x">>),
      system_memory |-> 1073741824]}

\* The arguments of set_effective_memory_cache_size
MemoryAmounts ==
    {Text(<<"1", "G", "B">>), Text(<<"3", "M", "B">>), Text(<<"0">>),
     Text(<<"-", "1">>), Text(<<"x">>)}

\* The chunk_target_size arguments of chunk_adaptive_set
TargetSizes ==
    {NullText, Text(<<"o", "f", "f">>), Text(<<"O", "f", "F">>),
     Text(<<"D", "i", "s", "a", "b", "l", "e">>),
     Text(<<"e", "s", "t", "i", "m", "a", "t", "e">>),
     Text(<<"E", "S", "T", "I", "M", "A", "T", "E">>),
     Text(<<"1", "0", "0", "M", "B">>), Text(<<"1", "k", "B">>),
     Text(<<"-", "1">>), Text(<<"x">>)}

InitPolicy ==
    /\ pc = "policy_idle"
    /\ fixed_effective_memory_cache_size = -1
    /\ overridden = [set |-> FALSE, bytes |-> 0]
    /\ config \in Configs
    /\ hypertables = NewHypertables
    /\ memory_amount = NullText
    /\ info = NoInfo
    /\ error = ""
    /\ retval = <<>>
    /\ MinMaxIdle
    /\ IntervalIdle

\* set_effective_memory_cache_size once the amount is converted
SetFixedSize(r) ==
    /\ error' = r.error
    /\ IF r.error = ""
       THEN /\ fixed_effective_memory_cache_size' = r.bytes
            /\ overridden' = [set |-> TRUE, bytes |-> r.bytes]
            /\ retval' = <<r.bytes>>
       ELSE /\ retval' = <<>>
            /\ UNCHANGED <<fixed_effective_memory_cache_size, overridden>>

\* set_effective_memory_cache_size (lines 83-91)
SetEffectiveMemoryCacheSize ==
    /\ pc = "policy_idle"
    /\ \E amount \in MemoryAmounts :
          /\ memory_amount' = amount
          /\ SetFixedSize(convert_text_memory_amount_to_bytes(amount))
    /\ pc' = "override_returned"
    /\ UNCHANGED <<config, hypertables, info, minmaxVars, intervalVars>>

\* What a call of estimate_effective_memory_cache_size leaves
EstimateOutcome(r) ==
    /\ error' = r.error
    /\ retval' = IF r.error = "" THEN <<r.bytes>> ELSE <<>>

\* A call of estimate_effective_memory_cache_size (lines 117-163)
EstimateEffectiveMemoryCacheSize ==
    /\ pc = "policy_idle"
    /\ EstimateOutcome(estimate_effective_memory_cache_size(
                           fixed_effective_memory_cache_size, config))
    /\ pc' = "estimated"
    /\ UNCHANGED <<fixed_effective_memory_cache_size, overridden, config, hypertables,
                   memory_amount, info, minmaxVars, intervalVars>>

\* chunk_adaptive_set up to the call of chunk_adaptive_sizing_info_validate
\* (lines 767-805): the message of its ERROR and the ChunkSizingInfo
ChunkAdaptiveSetInfo(inf) ==
    IF inf.table_relid = InvalidOid
    THEN [error |-> "table does not exist", info |-> inf]
    ELSE IF inf.table_relid \notin HypertableOids
    THEN [error |-> "table is not a hypertable", info |-> inf]
    ELSE IF Relations[inf.table_relid].dimension.isnull
    THEN [error |-> "no open dimension found for adaptive chunking", info |-> inf]
    ELSE [error |-> "",
          info |-> [inf EXCEPT !.colname = Relations[inf.table_relid].dimension]]

\* chunk_adaptive_set with the validation: the message of its ERROR and the
\* ChunkSizingInfo
ChunkAdaptiveSetValidate(entry, fixed, cfg) ==
    IF entry.error # "" THEN entry
    ELSE chunk_adaptive_sizing_info_validate(entry.info, fixed, cfg)

\* An ERROR ends chunk_adaptive_set: the hypertable is as it was
ChunkAdaptiveSetError(message) ==
    /\ error' = message
    /\ retval' = <<>>
    /\ UNCHANGED hypertables

\* chunk_adaptive_set from the validation on (lines 805-839)
ChunkAdaptiveSetUpdate(relid, valid) ==
    /\ info' = valid.info
    /\ IF valid.error # ""
       THEN ChunkAdaptiveSetError(valid.error)
       ELSE IF valid.info.func # InvalidOid
       THEN /\ error' = ""
            /\ retval' = <<valid.info.func, valid.info.target_size_bytes>>
            /\ hypertables' =
                  [hypertables EXCEPT ![relid] =
                      [chunk_sizing_func |-> valid.info.func,
                       chunk_target_size |-> valid.info.target_size_bytes]]
       ELSE IF hypertables[relid].chunk_sizing_func # InvalidOid
       THEN IF chunk_sizing_func_validate(hypertables[relid].chunk_sizing_func) # ""
            THEN ChunkAdaptiveSetError(
                     chunk_sizing_func_validate(hypertables[relid].chunk_sizing_func))
            ELSE /\ error' = ""
                 /\ retval' = <<hypertables[relid].chunk_sizing_func,
                                valid.info.target_size_bytes>>
                 /\ hypertables' =
                       [hypertables EXCEPT ![relid].chunk_target_size =
                           valid.info.target_size_bytes]
       ELSE ChunkAdaptiveSetError("invalid chunk sizing function")

\* chunk_adaptive_set (lines 762-840)
ChunkAdaptiveSet ==
    /\ pc = "policy_idle"
    /\ \E relid \in TableOids, target_size \in TargetSizes, func \in FuncOids :
          ChunkAdaptiveSetUpdate(
              relid,
              ChunkAdaptiveSetValidate(
                  ChunkAdaptiveSetInfo([NoInfo EXCEPT !.table_relid = relid,
                                                      !.target_size = target_size,
                                                      !.func = func]),
                  fixed_effective_memory_cache_size, config))
    /\ pc' = "set_returned"
    /\ UNCHANGED <<fixed_effective_memory_cache_size, overridden, config, memory_amount,
                   minmaxVars, intervalVars>>

\* The call is over; the backend waits for the next one
PolicyReturn ==
    /\ pc \in {"override_returned", "estimated", "set_returned"}
    /\ pc' = "policy_idle"
    /\ memory_amount' = NullText
    /\ info' = NoInfo
    /\ error' = ""
    /\ retval' = <<>>
    /\ UNCHANGED <<fixed_effective_memory_cache_size, overridden, config, hypertables,
                   minmaxVars, intervalVars>>

NextPolicy ==
    \/ SetEffectiveMemoryCacheSize
    \/ EstimateEffectiveMemoryCacheSize
    \/ ChunkAdaptiveSet
    \/ PolicyReturn

SpecPolicy == InitPolicy /\ [][NextPolicy]_vars

(***************************************************************************)
(* Claims about the value-range locator, checked under SpecMinMax.         *)
(***************************************************************************)
\* The non-null values of column a
ColumnValues(rows, a) == {rows[i][a].value : i \in {j \in 1..Len(rows) : ~rows[j][a].isnull}}

SetMin(S) == CHOOSE x \in S : \A y \in S : x <= y

SetMax(S) == CHOOSE x \in S : \A y \in S : x >= y

\* Whether some index of the relation has column a as its leading column
HasLeadingIndex(r, a) == \E i \in 1..Len(r.indexlist) : r.indexlist[i].indkey = a

\* C5: for a partition that has an index whose leading column is the target
\* column, the locator's result is Found(min, max) with min the smallest and
\* max the largest value of the column (so min <= max) when the partition has
\* a row, and NoData when it has none.
C5_IndexScanMinMax ==
    (pc = "minmax_done" /\ HasLeadingIndex(rel, attnum)) =>
        IF rel.rows = <<>> THEN ~found
        ELSE /\ found
             /\ minmax[1] <= minmax[2]
             /\ ColumnValues(rel.rows, attnum) # {} =>
                    /\ minmax[1] = SetMin(ColumnValues(rel.rows, attnum))
                    /\ minmax[2] = SetMax(ColumnValues(rel.rows, attnum))

\* C6: whatever the caller's buffer held, the full scan's result is
\* Found(min, max) with the least and the greatest non-null value of the
\* column when there is one, and NoData when there is none.
C6_HeapScanMinMax ==
    (pc = "heap_close" /\ warned) =>
        IF ColumnValues(rel.rows, attnum) = {} THEN res = MINMAX_NO_TUPLES
        ELSE /\ res = MINMAX_FOUND
             /\ minmax[1] = SetMin(ColumnValues(rel.rows, attnum))
             /\ minmax[2] = SetMax(ColumnValues(rel.rows, attnum))

\* C7: the full scan runs, with its warning, exactly when no index has the
\* target column as its leading column, and the outcome (found or not, and the
\* pair when found) is the one the full scan gives for the same rows, whatever
\* the indexes.
C7_FallbackAdvisory ==
    pc = "minmax_done" =>
        /\ warned = ~HasLeadingIndex(rel, attnum)
        /\ \A buf \in Garbage \X Garbage :
              LET h == minmax_heapscan(rel.rows, attnum, buf)
              IN  /\ found = (h.res = MINMAX_FOUND)
                  /\ found => minmax = h.minmax

(***************************************************************************)
(* Claims about calculate_chunk_interval, checked under SpecInterval.      *)
(* They are stated over the window's chunks and over what the locator gave *)
(* for each of them (located), not over the accumulators.                  *)
(***************************************************************************)
SliceInterval(i) == chunks[i].range_end - chunks[i].range_start

\* interval_fillfactor of the i-th chunk
LocatedFill(i) ==
    IntervalFillfactor(time_value_to_internal(located[i].minmax[1]),
                       time_value_to_internal(located[i].minmax[2]), SliceInterval(i))

\* The class of a chunk with size_fillfactor sf whose data spans more than
\* INTERVAL_FILLFACTOR_THRESH of its slice
SampleOfSize(sf) ==
    [class |-> IF DblGt(sf, SIZE_FILLFACTOR_THRESH) THEN "usable" ELSE "undersized",
     size_fillfactor |-> sf]

\* The class of a located chunk with interval_fillfactor f: its
\* extrapolated_chunk_size is the quotient, truncated
SampleOfFill(i, f) ==
    IF DblGt(f, INTERVAL_FILLFACTOR_THRESH)
    THEN SampleOfSize(SizeFillfactor(
             DblToInt64(DblDiv(DblFromInt64(chunks[i].chunk_size), f)),
             chunk_target_size_bytes))
    ELSE [class |-> "ignored", size_fillfactor |-> DblZero]

\* What each chunk passed so far contributes
Samples ==
    [i \in 1..Len(located) |->
        IF located[i].found THEN SampleOfFill(i, LocatedFill(i))
        ELSE [class |-> "nodata", size_fillfactor |-> DblZero]]

CountOf(S, class) == Cardinality({i \in 1..Len(S) : S[i].class = class})

\* The sum, over the usable chunks among the first i in window order, of
\* slice_interval / size_fillfactor, truncated to an integer after each addition
RECURSIVE TruncatedSum(_, _)
TruncatedSum(S, i) ==
    IF i = 0 THEN 0
    ELSE IF S[i].class = "usable"
    THEN DblToInt64(DblAdd(DblFromInt64(TruncatedSum(S, i - 1)),
                           DblDiv(DblFromInt64(SliceInterval(i)), S[i].size_fillfactor)))
    ELSE TruncatedSum(S, i - 1)

\* C1: once a candidate interval is computed, on either path, the returned
\* interval is the current interval when |1 - candidate / current|, computed in
\* double precision, is <= 0.15, and the candidate otherwise.  In exact
\* arithmetic: a relative change below 15% keeps the current interval, one
\* above 15% adopts the candidate.  Current 86400 with candidate 80000 gives
\* 86400.
C1_Hysteresis ==
    [][pc = "interval_diff" =>
          /\ DblLe(DblAbs(DblSub(DblOne, DblDiv(DblFromInt64(chunk_interval),
                                                DblFromInt64(current_interval)))),
                   INTERVAL_MIN_CHANGE_THRESH) => result' = current_interval
          /\ DblGt(DblAbs(DblSub(DblOne, DblDiv(DblFromInt64(chunk_interval),
                                                DblFromInt64(current_interval)))),
                   INTERVAL_MIN_CHANGE_THRESH) => result' = chunk_interval
          /\ result' \in {current_interval, chunk_interval}
          /\ 100 * (current_interval - chunk_interval) < 15 * current_interval
             /\ 100 * (chunk_interval - current_interval) < 15 * current_interval
                => result' = current_interval
          /\ 100 * (current_interval - chunk_interval) > 15 * current_interval
             \/ 100 * (chunk_interval - current_interval) > 15 * current_interval
                => result' = chunk_interval
          /\ ChangedInterval(80000, 86400) = 86400]_vars

\* A candidate within 15% was computed and the current interval returned
C1_Witness ==
    /\ pc = "returned"
    /\ current_interval = 86400
    /\ num_intervals = 1
    /\ result = 86400

C3_PositiveInterval == pc = "returned" => result > 0

\* The class of a located chunk with interval_fillfactor f when its
\* extrapolated size is left as the quotient S / interval_fillfactor
QuotientSampleOfFill(i, f) ==
    IF DblGt(f, INTERVAL_FILLFACTOR_THRESH)
    THEN SampleOfSize(DblDiv(DblDiv(DblFromInt64(chunks[i].chunk_size), f),
                             DblFromInt64(chunk_target_size_bytes)))
    ELSE [class |-> "ignored", size_fillfactor |-> DblZero]

QuotientSamples ==
    [i \in 1..Len(located) |->
        IF located[i].found THEN QuotientSampleOfFill(i, LocatedFill(i))
        ELSE [class |-> "nodata", size_fillfactor |-> DblZero]]

\* The sum of slice_interval / size_fillfactor over the usable chunks among
\* the first i
RECURSIVE QuotientSum(_, _)
QuotientSum(S, i) ==
    IF i = 0 THEN DblZero
    ELSE IF S[i].class = "usable"
    THEN DblAdd(QuotientSum(S, i - 1),
                DblDiv(DblFromInt64(SliceInterval(i)), S[i].size_fillfactor))
    ELSE QuotientSum(S, i - 1)

\* The mean of those quotients, truncated to an integer
QuotientMean(S) ==
    DblToInt64(DblDiv(QuotientSum(S, Len(S)), DblFromInt64(CountOf(S, "usable"))))

Parsable(val) == ~val.isnull /\ parse_int(val.str).ok

ToLower(str) == [i \in DOMAIN str |-> pg_tolower(str[i])]

NotNegative(bytes) == IF bytes <= 0 THEN 0 ELSE bytes

\* The target size the text stands for, given the estimate
ResolvedTarget(target_size, estimate) ==
    IF target_size.isnull THEN 0
    ELSE IF ToLower(target_size.str) \in {<<"o", "f", "f">>,
                                          <<"d", "i", "s", "a", "b", "l", "e">>}
    THEN 0
    ELSE IF ToLower(target_size.str) = <<"e", "s", "t", "i", "m", "a", "t", "e">>
    THEN NotNegative(estimate.bytes \div 4)
    ELSE NotNegative(parse_int(target_size.str).result * 8192)

\* C9: the target size a successful chunk_adaptive_set stores is 0 for
\* 'off', 'disable' and a NULL text, a quarter of the memory estimate under the
\* same settings and fixed size for 'estimate' (the keywords in any case of
\* their letters),
\* and the parsed block count times the block size for any other text, with
\* every result <= 0 made 0; so the stored target size is never negative.
C9_TargetSize ==
    /\ (pc = "set_returned" /\ error = "") =>
          /\ info.target_size_bytes =
                ResolvedTarget(info.target_size,
                               estimate_effective_memory_cache_size(
                                   fixed_effective_memory_cache_size, config))
          /\ hypertables[info.table_relid].chunk_target_size = info.target_size_bytes
          /\ retval[2] = info.target_size_bytes
    /\ \A r \in HypertableOids : hypertables[r].chunk_target_size >= 0

\* A text that stands for a negative size was given and 0 was stored
C9_Witness ==
    /\ pc = "set_returned"
    /\ error = ""
    /\ info.target_size = Text(<<"-", "1">>)
    /\ hypertables[info.table_relid].chunk_target_size = 0

\* Whether func is a function of signature (int32, int64, int64) -> int64
ValidSignature(func) ==
    /\ func \in DOMAIN PgProc
    /\ PgProc[func].pronargs = 3
    /\ PgProc[func].proargtypes = <<INT4OID, INT8OID, INT8OID>>
    /\ PgProc[func].prorettype = INT8OID

\* Whether the text is none of the keywords and no size
InvalidSizeText(target_size) ==
    /\ ~target_size.isnull
    /\ ToLower(target_size.str) \notin {<<"o", "f", "f">>,
                                        <<"d", "i", "s", "a", "b", "l", "e">>,
                                        <<"e", "s", "t", "i", "m", "a", "t", "e">>}
    /\ ~parse_int(target_size.str).ok

\* Whether the table, the hypertable, its open dimension, the dimension's
\* column, the sizing function or the size text of the call is invalid
InvalidCall(inf) ==
    \/ inf.table_relid = InvalidOid
    \/ ~Relations[inf.table_relid].hypertable
    \/ Relations[inf.table_relid].dimension.isnull
    \/ \A a \in DOMAIN Relations[inf.table_relid].columns :
          Relations[inf.table_relid].columns[a].attname #
              Relations[inf.table_relid].dimension.str
    \/ ~ValidSignature(inf.func)
    \/ InvalidSizeText(inf.target_size)

\* C10: a chunk_adaptive_set call whose sizing function has not the signature
\* (int32, int64, int64) -> int64, or whose table, hypertable, open dimension,
\* column or size text is invalid, fails and leaves every hypertable's stored
\* sizing function and target size as they were; a sizing function the call
\* stores has a valid signature.
C10_ValidateBeforePersist ==
    [][pc' = "set_returned" =>
          /\ InvalidCall(info') => (error' # "" /\ hypertables' = hypertables)
          /\ error' # "" => hypertables' = hypertables
          /\ \A r \in HypertableOids :
                hypertables'[r].chunk_sizing_func # hypertables[r].chunk_sizing_func
                    => ValidSignature(hypertables'[r].chunk_sizing_func)]_vars

\* A call with a function of another signature failed, and the hypertable
\* keeps the function and the target size an earlier call stored
C10_Witness ==
    /\ pc = "set_returned"
    /\ error = "invalid function signature"
    /\ info.table_relid = 1
    /\ ~ValidSignature(info.func)
    /\ hypertables[1] = [chunk_sizing_func |-> 14, chunk_target_size |-> 104857600]

\* C11: a chunk_adaptive_set call without a function (NULL, InvalidOid in
\* info.func) on a hypertable whose stored sizing function has a valid
\* signature succeeds, returns the stored function with the resolved target
\* size and stores that target size; 'invalid chunk sizing function' is the
\* error only when no function was given and none is stored.
C11_OptionalFunction ==
    (/\ pc = "set_returned"
     /\ info.func = InvalidOid
     /\ info.table_relid = 1
     /\ info.target_size.isnull \/ ToLower(info.target_size.str) = <<"o", "f", "f">>) =>
        /\ ValidSignature(hypertables[1].chunk_sizing_func) =>
              /\ error = ""
              /\ retval = <<hypertables[1].chunk_sizing_func, 0>>
              /\ hypertables[1].chunk_target_size = 0
        /\ error = "invalid chunk sizing function" =>
              hypertables[1].chunk_sizing_func = InvalidOid

(***************************************************************************)
(* The undersized path and the divisions of calculate_chunk_interval,      *)
(* under SpecInterval.                                                     *)
(***************************************************************************)
\* C12: a window without usable chunk and with more than one undersized chunk,
\* each undersized chunk's slice as long as the current interval and the
\* undersized chunks' size_fillfactor not 0 on average, gives an interval
\* greater than the current interval.
C12_UndersizedGrows ==
    (/\ pc = "returned"
     /\ CountOf(Samples, "usable") = 0
     /\ CountOf(Samples, "undersized") > 1
     /\ \A i \in 1..Len(located) :
           Samples[i].class = "undersized" => SliceInterval(i) = current_interval
     /\ ~DblIsZero(undersized_fillfactor)) =>
        result > current_interval

\* C13: no division of calculate_chunk_interval has a zero divisor: not
\* S / interval_fillfactor for a chunk whose minimum and maximum were found
\* (min = max included), not R / size_fillfactor for a usable chunk, not
\* UNDERSIZED_FILLFACTOR_THRESH / avg_fillfactor on the undersized path, not
\* chunk_interval / current_interval; so every quotient converted to int64 is
\* finite.
C13_GuardedDivisions ==
    /\ \A i \in 1..Len(located) :
          located[i].found =>
              /\ ~DblIsZero(LocatedFill(i))
              /\ DblCastDefined(DblDiv(DblFromInt64(chunks[i].chunk_size), LocatedFill(i)))
    /\ \A i \in 1..Len(located) :
          Samples[i].class = "usable" => ~DblIsZero(Samples[i].size_fillfactor)
    /\ (pc = "interval_diff" /\ num_intervals = 0) => ~DblIsZero(undersized_fillfactor)
    /\ current_interval # 0

(***************************************************************************)
(* The relations chunk_get_minmax and table_has_minmax_index open, under   *)
(* SpecMinMax.                                                             *)
(***************************************************************************)
HeldOfKind(kind) == {i \in DOMAIN held : held[i].relation.kind = kind}

\* C14: the relation and each index are opened with AccessShareLock and
\* closed with it before the function returns: the relation is open once from
\* heap_open to heap_close, at most one index is open at a time, it is the
\* index of the running iteration and it is closed when the iteration ends
\* (also when the loop ends early on MINMAX_FOUND), and nothing is open when
\* the function has returned.
C14_BalancedAccess ==
    /\ \A i \in DOMAIN held : held[i].lockmode = "AccessShareLock"
    /\ Cardinality(HeldOfKind("heap")) <= 1
    /\ Cardinality(HeldOfKind("index")) <= 1
    /\ pc \in {"index_list", "index_scan", "heap_scan", "heap_close"} =>
          Cardinality(HeldOfKind("heap")) = 1
    /\ pc = "index_scan" => held = <<[relation |-> HeapRelation, lockmode |-> "AccessShareLock"],
                                     [relation |-> IndexRelation(lc),
                                      lockmode |-> "AccessShareLock"]>>
    /\ pc \in {"index_list", "heap_scan", "heap_close"} => HeldOfKind("index") = {}
    /\ pc \in {"heap_open", "minmax_done", "has_index_done"} => held = <<>>

\* chunk_get_minmax has returned after the loop ended early, on the first of
\* two indexes, and nothing is open
C14_Witness ==
    /\ pc = "minmax_done"
    /\ Len(rel.indexlist) = 2
    /\ lc = 2
    /\ res = MINMAX_FOUND
    /\ held = <<>>

==============================================================================
